---------------------------- MODULE Spec2Model ----------------------------
(***************************************************************************)
(* Model of mattpymapper.py: the import-graph walk (resolve_and_dfs), the  *)
(* unused-file report and the two maintenance actions, driven by main().   *)
(*                                                                         *)
(* Strings (paths, module names, import strings, console input) are       *)
(* sequences of one-character strings, so that startswith, split,         *)
(* replace, strip, lower and the [:-3] slice are computed as Python        *)
(* computes them.                                                          *)
(***************************************************************************)
EXTENDS Integers, Sequences, FiniteSets, TLC

\* ------------------------------------------------------------- bounds ---
\* Total number of import statements (file, import string) in the tree.
MaxImportStmts == 2

\* ------------------------------------------------------- string helpers ---
\* str.startswith
StartsWith(s, p) == Len(p) <= Len(s) /\ SubSeq(s, 1, Len(p)) = p

\* str.endswith
EndsWith(s, p) == Len(p) <= Len(s) /\ SubSeq(s, Len(s) - Len(p) + 1, Len(s)) = p

\* s[:-3]
DropLast3(s) == IF Len(s) <= 3 THEN <<>> ELSE SubSeq(s, 1, Len(s) - 3)

\* str.replace(old, new) for one-character old and new
Replace(s, old, new) == [i \in 1..Len(s) |-> IF s[i] = old THEN new ELSE s[i]]

\* str.split(sep) for a one-character sep: a sequence of strings
RECURSIVE SplitFrom(_, _, _)
SplitFrom(s, sep, cur) ==
    IF s = <<>> THEN <<cur>>
    ELSE IF Head(s) = sep THEN <<cur>> \o SplitFrom(Tail(s), sep, <<>>)
    ELSE SplitFrom(Tail(s), sep, Append(cur, Head(s)))

Split(s, sep) == SplitFrom(s, sep, <<>>)

\* sep.join(parts)
RECURSIVE Join(_, _)
Join(parts, sep) ==
    IF parts = <<>> THEN <<>>
    ELSE IF Len(parts) = 1 THEN parts[1]
    ELSE parts[1] \o <<sep>> \o Join(Tail(parts), sep)

\* str.strip() (the only whitespace of the inputs is the blank)
RECURSIVE LStrip(_)
LStrip(s) == IF s # <<>> /\ Head(s) = " " THEN LStrip(Tail(s)) ELSE s

RECURSIVE RStrip(_)
RStrip(s) ==
    IF s # <<>> /\ s[Len(s)] = " " THEN RStrip(SubSeq(s, 1, Len(s) - 1)) ELSE s

Strip(s) == RStrip(LStrip(s))

\* str.lower() (the only upper-case letter of the inputs is Y)
Lower(s) == [i \in 1..Len(s) |-> IF s[i] = "Y" THEN "y" ELSE s[i]]

\* the elements of a sequence
Range(q) == {q[i] : i \in 1..Len(q)}

\* every ordering of a finite set, as sequences without repetition
Orderings(S) ==
    {q \in [1..Cardinality(S) -> S] : \A i, j \in 1..Cardinality(S) : q[i] = q[j] => i = j}

\* --------------------------------------------------------- path helpers ---
\* the components of a path: split on "/", empty components dropped
RECURSIVE NonEmpty(_)
NonEmpty(parts) ==
    IF parts = <<>> THEN <<>>
    ELSE IF Head(parts) = <<>> THEN NonEmpty(Tail(parts))
    ELSE <<Head(parts)>> \o NonEmpty(Tail(parts))

Components(p) == NonEmpty(Split(p, "/"))

\* os.path.normpath on the components of an absolute path: "." dropped,
\* ".." removes the component before it (and is dropped at the root)
RECURSIVE Collapse(_, _)
Collapse(parts, acc) ==
    IF parts = <<>> THEN acc
    ELSE IF Head(parts) = <<".">> THEN Collapse(Tail(parts), acc)
    ELSE IF Head(parts) = <<".", ".">>
         THEN Collapse(Tail(parts),
                       IF acc = <<>> THEN acc ELSE SubSeq(acc, 1, Len(acc) - 1))
    ELSE Collapse(Tail(parts), Append(acc, Head(parts)))

\* os.path.join(a, b)
PathJoin(a, b) == IF b # <<>> /\ Head(b) = "/" THEN b ELSE a \o <<"/">> \o b

\* os.path.abspath(p) with the working directory cwd
AbsPath(p, cwd) ==
    IF p = <<>> THEN cwd
    ELSE <<"/">> \o Join(Collapse(Components(PathJoin(cwd, p)), <<>>), "/")

\* length of the common prefix of two component lists
RECURSIVE CommonLen(_, _)
CommonLen(a, b) ==
    IF a = <<>> \/ b = <<>> \/ Head(a) # Head(b) THEN 0
    ELSE 1 + CommonLen(Tail(a), Tail(b))

\* os.path.relpath(p, start) for absolute, normalised p and start
RelPath(p, start) ==
    LET sl  == Components(start)
        pl  == Components(p)
        i   == CommonLen(sl, pl)
        ups == [k \in 1..(Len(sl) - i) |-> <<".", ".">>]
        rel == ups \o SubSeq(pl, i + 1, Len(pl))
    IN  IF rel = <<>> THEN <<".">> ELSE Join(rel, "/")

\* os.path.dirname(p)
DirName(p) ==
    LET pl == Components(p)
    IN  IF Len(pl) <= 1 THEN <<"/">>
        ELSE <<"/">> \o Join(SubSeq(pl, 1, Len(pl) - 1), "/")

\* p and every directory above it, the root directory excluded
Ancestors(p) ==
    LET pl == Components(p)
    IN  {<<"/">> \o Join(SubSeq(pl, 1, k), "/") : k \in 1..Len(pl)}

\* p lies in the directory tree of dir (what os.walk(dir) descends into)
Under(p, dir) ==
    LET dl == Components(dir)
        pl == Components(p)
    IN  Len(dl) < Len(pl) /\ SubSeq(pl, 1, Len(dl)) = dl


\* every subset of S with at most k elements
RECURSIVE SubsetsUpTo(_, _)
SubsetsUpTo(S, k) ==
    IF k = 0 THEN {{}}
    ELSE LET smaller == SubsetsUpTo(S, k - 1)
         IN  smaller \cup {T \cup {x} : T \in smaller, x \in S}

\* ------------------------------------------------- the directory tree ---
\* os.getcwd(): the scan root
BaseDir == <<"/", "r">>

PyExt == <<".", "p", "y">>

\* the default of move_unused_files' out_dir
OutDir == <<"u", "n", "u", "s", "e", "d">>

FileA   == BaseDir \o <<"/", "a">> \o PyExt
FileB   == BaseDir \o <<"/", "b">> \o PyExt
FileBS  == BaseDir \o <<"/", "b", "/", "s">> \o PyExt
\* a module left in the quarantine folder by an earlier run
FileUB  == BaseDir \o <<"/">> \o OutDir \o <<"/", "b">> \o PyExt
\* a file of the tree that is no Python source
FileDoc == BaseDir \o <<"/", "m", ".", "m", "d">>
\* a Python file of a sibling directory whose name extends the root's name
FileSibling == <<"/", "r", "2", "/", "a">> \o PyExt

AlwaysFiles   == {FileA, FileDoc, FileSibling}
OptionalFiles == {FileB, FileBS, FileUB}

\* the import strings that occur in the sources
ImpA  == <<"a">>
ImpB  == <<"b">>
ImpBS == <<"b", ".", "s">>
ImpBX == <<"b", ".", "x">>
ImpNM == <<"n", ".", "m">>
ImpUB == OutDir \o <<".", "b">>

ImportStrings == {ImpA, ImpB, ImpBS, ImpBX, ImpNM, ImpUB}

\* what the user may type at the three prompts
StartInputs ==
    { <<" ", ".", "/", "a">> \o PyExt,             \* " ./a.py"
      OutDir \o <<"/", "b">> \o PyExt,             \* "unused/b.py"
      <<"z">> \o PyExt,                            \* "z.py": no such file
      <<"b">>,                                     \* "b": a directory, or nothing
      <<"m", ".", "m", "d">>,                      \* "m.md": a file, no module
      <<".", ".", "/", "a">> \o PyExt,             \* "../a.py": outside the root
      <<".", ".", "/", "r", "2", "/", "a">> \o PyExt }  \* "../r2/a.py"

ChoiceInputs ==
    { <<"1">>, <<"2">>, <<"1", ",", " ", "2">>, <<"q">> }

AnswerInputs == { <<"y">>, <<" ", "Y">>, <<"n">>, <<>> }

PyFilesOf(files) == {f \in files : EndsWith(f, PyExt)}

VARIABLES
    fs,          \* path of each existing file |-> the file (named by its first path)
    dirs,        \* the existing directories
    source,      \* file |-> [imports: its import strings, parses: ast.parse succeeds]
    pc,          \* position of main()
    exitStatus,  \* -1 while running
    uncaught,    \* the exception that ended the process, "none" if none did
    full_start,  \* main: full_start
    modules,     \* main: modules (module name |-> path)
    indexBuilt,  \* build_module_map has run
    start_mod,   \* main: start_mod
    visited,     \* resolve_and_dfs: visited
    edges,       \* resolve_and_dfs: edges
    stack,       \* the active _dfs calls: [mod, todo], innermost last
    entered,     \* the modules whose imports _dfs expanded, in order
    resolved,    \* for every recorded edge: <<mod, import string, target>>
    rendered,    \* render_with_networkx has run
    unused,      \* main: unused
    menuShown,   \* the action menu was printed
    choices,     \* main: choices
    moveTodo,    \* move_unused_files: the modules its loop has not reached
    roots,       \* main: roots
    rootsTaken,  \* gather_all_import_roots has run
    missing,     \* install_missing_packages: missing
    ans,         \* install_missing_packages: ans
    asked,       \* the install confirmation was read
    installLog   \* the installer's invocations: [pkg, ok], in order

vars == << fs, dirs, source, pc, exitStatus, uncaught, full_start, modules, indexBuilt,
           start_mod, visited, edges, stack, entered, resolved, rendered,
           unused, menuShown, choices, moveTodo, roots, rootsTaken,
           missing, ans, asked, installLog >>

NoString == <<"?">>
EmptyMap == [x \in {} |-> <<>>]

Init ==
    \E present \in SUBSET OptionalFiles :
    \E stmts \in SubsetsUpTo(PyFilesOf(present \cup {FileA}) \X ImportStrings,
                             MaxImportStmts) :
    \E bad \in SUBSET {f \in {FileB} : \E s \in ImportStrings : <<f, s>> \in stmts} :
       LET files == AlwaysFiles \cup present
       IN  /\ fs = [f \in files |-> f]
           /\ dirs = UNION {Ancestors(DirName(f)) : f \in files}
           /\ source = [f \in files |->
                          [imports |-> {s \in ImportStrings : <<f, s>> \in stmts},
                           parses  |-> EndsWith(f, PyExt) /\ f \notin bad]]
           /\ pc = "start"
           /\ exitStatus = -1
           /\ uncaught = "none"
           /\ full_start = NoString
           /\ modules = EmptyMap
           /\ indexBuilt = FALSE
           /\ start_mod = NoString
           /\ visited = {}
           /\ edges = <<>>
           /\ stack = <<>>
           /\ entered = <<>>
           /\ resolved = <<>>
           /\ rendered = FALSE
           /\ unused = {}
           /\ menuShown = FALSE
           /\ choices = {}
           /\ moveTodo = {}
           /\ roots = {}
           /\ rootsTaken = FALSE
           /\ missing = <<>>
           /\ ans = NoString
           /\ asked = FALSE
           /\ installLog = <<>>

\* ------------------------------------------------ core mapping helpers ---
\* os.path.isfile
IsFile(p) == p \in DOMAIN fs

\* the module name of a path of the tree: rel_path[:-3].replace(os.path.sep, ".")
ModName(p, base_dir) == Replace(DropLast3(RelPath(p, base_dir)), "/", ".")

\* every map that sends each name to one of the files listed for it
RECURSIVE MapsOnto(_, _)
MapsOnto(names, filesOf) ==
    IF names = {} THEN {EmptyMap}
    ELSE LET m == CHOOSE x \in names : TRUE
         IN  {(m :> f) @@ g : f \in filesOf[m], g \in MapsOnto(names \ {m}, filesOf)}

\* build_module_map: the mappings the directory walk can produce (when two
\* files have one module name, the one walked last stays, in either order)
build_module_map(base_dir) ==
    LET found   == {f \in DOMAIN fs : Under(f, base_dir) /\ EndsWith(f, PyExt)}
        named   == {<<ModName(f, base_dir), f>> : f \in found}
        names   == {nf[1] : nf \in named}
        filesOf == [m \in names |-> {nf[2] : nf \in {x \in named : x[1] = m}}]
    IN  MapsOnto(names, filesOf)

\* parse_imports: the import strings of the file now at file_path, the empty
\* set when the file cannot be opened or parsed
parse_imports(file_path) ==
    IF IsFile(file_path) /\ source[fs[file_path]].parses
    THEN source[fs[file_path]].imports
    ELSE {}

\* imp.split(".")[0]
RootOf(imp) == Split(imp, ".")[1]

\* ----------------------------------------------------- resolve_and_dfs ---
\* a resolution that lacks the fallback to the root
resolve_target_exact_only(imp, module_map) == imp

\* a resolution that asks for the root first
resolve_target_root_first(imp, module_map) ==
    IF RootOf(imp) \in DOMAIN module_map THEN RootOf(imp) ELSE imp

\* "prefer fully-qualified match; fall back to the root"
resolve_target(imp, module_map) ==
    IF imp \in DOMAIN module_map THEN imp ELSE RootOf(imp)

\* an edge recorded for any target
target_unchecked(target, module_map) == TRUE

\* the guard of edges.append and of the recursive call
target_known(target, module_map) == target \in DOMAIN module_map

\* a walk without the visited-guard
never_visited(mod, seen) == FALSE

\* the visited-guard at the head of _dfs
already_visited(mod, seen) == mod \in seen

\* the head of a call _dfs(mod), up to its loop: what it makes of the visited
\* set, the call stack and the list of expanded modules
dfs_call(mod, seen, stk, ent) ==
    IF already_visited(mod, seen)
    THEN [visited |-> seen, stack |-> stk, entered |-> ent]
    ELSE IF mod \notin DOMAIN modules \/ modules[mod] = <<>>
    THEN [visited |-> seen \cup {mod}, stack |-> stk, entered |-> ent]
    ELSE [visited |-> seen \cup {mod},
          stack   |-> Append(stk, [mod |-> mod, todo |-> parse_imports(modules[mod])]),
          entered |-> Append(ent, mod)]

\* ---------------------------------------------------------------- main ---
\* main, lines 158-164: read the start path and validate it
ReadStart ==
    /\ pc = "start"
    /\ \E typed \in StartInputs :
         LET start == Strip(typed)
             full  == AbsPath(start, BaseDir)
         IN  /\ full_start' = full
             /\ IF ~StartsWith(full, BaseDir) \/ ~IsFile(full)
                THEN pc' = "exit" /\ exitStatus' = 1
                ELSE pc' = "index" /\ UNCHANGED exitStatus
    /\ UNCHANGED << uncaught, fs, dirs, source, modules, indexBuilt, start_mod, visited,
                    edges, stack, entered, resolved, rendered, unused, menuShown,
                    choices, moveTodo, roots, rootsTaken, missing, ans,
                    asked, installLog >>

\* main, lines 166-172: build the index and map the start file to a module
BuildIndex ==
    /\ pc = "index"
    /\ \E mm \in build_module_map(BaseDir) :
         LET sm == ModName(full_start, BaseDir)
         IN  /\ modules' = mm
             /\ indexBuilt' = TRUE
             /\ start_mod' = sm
             /\ IF sm \notin DOMAIN mm
                THEN pc' = "exit" /\ exitStatus' = 1
                ELSE pc' = "scan" /\ UNCHANGED exitStatus
    /\ UNCHANGED << uncaught, fs, dirs, source, full_start, visited, edges, stack, entered,
                    resolved, rendered, unused, menuShown, choices, moveTodo,
                    roots, rootsTaken, missing, ans, asked, installLog >>

\* resolve_and_dfs, lines 56-57 and 75: the first call _dfs(start_mod)
StartWalk ==
    /\ pc = "scan"
    /\ LET r == dfs_call(start_mod, {}, <<>>, <<>>)
       IN  /\ visited' = r.visited
           /\ stack' = r.stack
           /\ entered' = r.entered
    /\ edges' = <<>>
    /\ resolved' = <<>>
    /\ pc' = "walk"
    /\ UNCHANGED << uncaught, fs, dirs, source, exitStatus, full_start, modules, indexBuilt,
                    start_mod, rendered, unused, menuShown, choices, moveTodo,
                    roots, rootsTaken, missing, ans, asked, installLog >>

\* _dfs, lines 67-73: one iteration of the loop of the innermost call (a set
\* is iterated in an order the program does not choose)
DfsImport ==
    /\ pc = "walk"
    /\ stack # <<>>
    /\ LET top == stack[Len(stack)]
       IN  \E imp \in top.todo :
             LET target == resolve_target(imp, modules)
                 rest   == [stack EXCEPT ![Len(stack)].todo = top.todo \ {imp}]
             IN  IF target_known(target, modules)
                 THEN LET r == dfs_call(target, visited, rest, entered)
                      IN  /\ edges' = Append(edges, <<top.mod, target>>)
                          /\ resolved' = Append(resolved, <<top.mod, imp, target>>)
                          /\ visited' = r.visited
                          /\ stack' = r.stack
                          /\ entered' = r.entered
                 ELSE /\ stack' = rest
                      /\ UNCHANGED << edges, resolved, visited, entered >>
    /\ UNCHANGED << uncaught, fs, dirs, source, pc, exitStatus, full_start, modules,
                    indexBuilt, start_mod, rendered, unused, menuShown, choices,
                    moveTodo, roots, rootsTaken, missing, ans, asked,
                    installLog >>

\* _dfs: the loop of the innermost call is exhausted, the call returns
DfsReturn ==
    /\ pc = "walk"
    /\ stack # <<>>
    /\ stack[Len(stack)].todo = {}
    /\ stack' = SubSeq(stack, 1, Len(stack) - 1)
    /\ UNCHANGED << uncaught, fs, dirs, source, pc, exitStatus, full_start, modules,
                    indexBuilt, start_mod, visited, edges, entered, resolved,
                    rendered, unused, menuShown, choices, moveTodo, roots, rootsTaken, missing, ans, asked, installLog >>

\* resolve_and_dfs, line 76, and main, line 177: the walk returns, the graph
\* is rendered
Render ==
    /\ pc = "walk"
    /\ stack = <<>>
    /\ rendered' = TRUE
    /\ pc' = "report"
    /\ UNCHANGED << uncaught, fs, dirs, source, exitStatus, full_start, modules, indexBuilt,
                    start_mod, visited, edges, stack, entered, resolved, unused,
                    menuShown, choices, moveTodo, roots, rootsTaken,
                    missing, ans, asked, installLog >>

\* the report taken without the walk's result
compute_unused_of_index(module_map, seen) == DOMAIN module_map

\* main, line 179
compute_unused(module_map, seen) == DOMAIN module_map \ seen

\* main, line 195: {c.strip() for c in input().split(",")}
parse_choices(typed) ==
    LET parts == Split(typed, ",") IN {Strip(parts[i]) : i \in 1..Len(parts)}

\* main, lines 179-195: the unused report, the menu and the selection
Report ==
    /\ pc = "report"
    /\ unused' = compute_unused(modules, visited)
    /\ menuShown' = TRUE
    /\ \E typed \in ChoiceInputs : choices' = parse_choices(typed)
    /\ pc' = "act1"
    /\ UNCHANGED << uncaught, fs, dirs, source, exitStatus, full_start, modules, indexBuilt,
                    start_mod, visited, edges, stack, entered, resolved, rendered,
                    moveTodo, roots, rootsTaken, missing, ans, asked,
                    installLog >>

\* --------------------------------------------------- maintenance tasks ---
\* move_unused_files, lines 107-108: os.path.join(dest_root, *rel_parts) + ".py"
dest_path(mod, base_dir, out_dir) ==
    LET dest_root == PathJoin(base_dir, out_dir)
        rel_parts == Split(mod, ".")
    IN  PathJoin(dest_root, Join(rel_parts, "/")) \o PyExt

\* os.makedirs(d, exist_ok=True) fails when d or a directory above it is a file
makedirs_ok(d) == Ancestors(d) \cap DOMAIN fs = {}

\* shutil.move(src, dst) of a file onto a path that is no directory: the file
\* leaves src and replaces whatever dst held
shutil_move(src, dst) ==
    [p \in (DOMAIN fs \ {src}) \cup {dst} |-> IF p = dst THEN fs[src] ELSE fs[p]]

\* main, line 197, and move_unused_files, lines 98-103
MoveBegin ==
    /\ pc = "act1"
    /\ IF <<"1">> \notin choices \/ unused = {}
       THEN /\ pc' = "act2"
            /\ UNCHANGED << dirs, moveTodo >>
       ELSE LET dest_root == PathJoin(BaseDir, OutDir)
            IN  IF makedirs_ok(dest_root)
                THEN /\ dirs' = dirs \cup Ancestors(dest_root)
                     /\ moveTodo' = unused
                     /\ pc' = "move"
                ELSE /\ pc' = "crash"
                     /\ UNCHANGED << dirs, moveTodo >>
    /\ exitStatus' = IF pc' = "crash" THEN 1 ELSE exitStatus
    /\ uncaught' = IF pc' = "crash" THEN "OSError" ELSE uncaught
    /\ UNCHANGED << fs, source, full_start, modules, indexBuilt, start_mod,
                    visited, edges, stack, entered, resolved, rendered, unused,
                    menuShown, choices, roots, rootsTaken, missing, ans, asked,
                    installLog >>

\* move_unused_files, lines 105-112: one iteration of the loop over the set
\* unused; the file system may refuse the move, and the error is not caught
MoveOne ==
    /\ pc = "move"
    /\ \E mod \in moveTodo :
       \E granted \in BOOLEAN :
         LET src_path == modules[mod]
             dst      == dest_path(mod, BaseDir, OutDir)
         IN  IF makedirs_ok(DirName(dst))
             THEN /\ dirs' = dirs \cup Ancestors(DirName(dst))
                  /\ IF granted /\ IsFile(src_path)
                     THEN /\ fs' = shutil_move(src_path, dst)
                          /\ moveTodo' = moveTodo \ {mod}
                          /\ UNCHANGED << pc, exitStatus, uncaught >>
                     ELSE /\ pc' = "crash"
                          /\ exitStatus' = 1
                          /\ uncaught' = "OSError"
                          /\ UNCHANGED << fs, moveTodo >>
             ELSE /\ pc' = "crash"
                  /\ exitStatus' = 1
                  /\ uncaught' = "OSError"
                  /\ UNCHANGED << fs, dirs, moveTodo >>
    /\ UNCHANGED << source, full_start, modules, indexBuilt, start_mod, visited,
                    edges, stack, entered, resolved, rendered, unused, menuShown,
                    choices, roots, rootsTaken, missing, ans, asked, installLog >>

\* move_unused_files, line 113: the loop is over, the action returns
MoveEnd ==
    /\ pc = "move"
    /\ moveTodo = {}
    /\ pc' = "act2"
    /\ UNCHANGED << uncaught, fs, dirs, source, exitStatus, full_start, modules, indexBuilt,
                    start_mod, visited, edges, stack, entered, resolved, rendered,
                    unused, menuShown, choices, moveTodo, roots, rootsTaken,
                    missing, ans, asked, installLog >>

\* gather_all_import_roots
gather_all_import_roots(module_map) ==
    {RootOf(imp) : imp \in UNION {parse_imports(module_map[m]) : m \in DOMAIN module_map}}

\* install_missing_packages, lines 126-127
install_candidates(import_roots, module_map) ==
    import_roots \ {RootOf(m) : m \in DOMAIN module_map}

\* main, lines 200-202, and install_missing_packages, lines 126-140: the
\* packages importlib finds depend on the interpreter's environment
DetectMissing ==
    /\ pc = "act2"
    /\ IF <<"2">> \notin choices
       THEN /\ pc' = "finish"
            /\ UNCHANGED << roots, rootsTaken, missing >>
       ELSE LET found == gather_all_import_roots(modules)
            IN  /\ roots' = found
                /\ rootsTaken' = TRUE
                /\ \E absent \in SUBSET install_candidates(found, modules) :
                     missing' \in Orderings(absent)
                /\ pc' = IF missing' = <<>> THEN "finish" ELSE "confirm"
    /\ UNCHANGED << uncaught, fs, dirs, source, exitStatus, full_start, modules, indexBuilt,
                    start_mod, visited, edges, stack, entered, resolved, rendered,
                    unused, menuShown, choices, moveTodo, ans, asked, installLog >>

\* a confirmation that only a typed "n" declines
confirmed_unless_no(answer) == answer # <<"n">>

\* install_missing_packages, line 143
confirmed(answer) == answer = <<"y">>

\* install_missing_packages, lines 142-145
Confirm ==
    /\ pc = "confirm"
    /\ \E typed \in AnswerInputs : ans' = Lower(Strip(typed))
    /\ asked' = TRUE
    /\ pc' = IF confirmed(ans') THEN "install" ELSE "finish"
    /\ UNCHANGED << uncaught, fs, dirs, source, exitStatus, full_start, modules, indexBuilt,
                    start_mod, visited, edges, stack, entered, resolved, rendered,
                    unused, menuShown, choices, moveTodo, roots, rootsTaken,
                    missing, installLog >>

\* an installer failure left uncaught
after_install_uncaught(succeeded) == IF succeeded THEN "install" ELSE "crash"

\* install_missing_packages, lines 149-153: where the run goes after one
\* invocation of pip; CalledProcessError is caught and the loop goes on
after_install(succeeded) == "install"

\* install_missing_packages, lines 147-153: one iteration of the loop; pip
\* ends with status zero or not (CalledProcessError)
InstallOne ==
    /\ pc = "install"
    /\ Len(installLog) < Len(missing)
    /\ \E succeeded \in BOOLEAN :
         /\ installLog' = Append(installLog,
                                 [pkg |-> missing[Len(installLog) + 1], ok |-> succeeded])
         /\ pc' = after_install(succeeded)
    /\ exitStatus' = IF pc' = "crash" THEN 1 ELSE exitStatus
    /\ uncaught' = IF pc' = "crash" THEN "CalledProcessError" ELSE uncaught
    /\ UNCHANGED << fs, dirs, source, full_start, modules, indexBuilt, start_mod,
                    visited, edges, stack, entered, resolved, rendered, unused,
                    menuShown, choices, moveTodo, roots, rootsTaken, missing, ans,
                    asked >>

\* install_missing_packages: the loop is over, the action returns
InstallEnd ==
    /\ pc = "install"
    /\ Len(installLog) = Len(missing)
    /\ pc' = "finish"
    /\ UNCHANGED << uncaught, fs, dirs, source, exitStatus, full_start, modules, indexBuilt,
                    start_mod, visited, edges, stack, entered, resolved, rendered,
                    unused, menuShown, choices, moveTodo, roots, rootsTaken,
                    missing, ans, asked, installLog >>

\* main, line 204, and the normal end of the process
Finish ==
    /\ pc = "finish"
    /\ pc' = "done"
    /\ exitStatus' = 0
    /\ UNCHANGED << uncaught, fs, dirs, source, full_start, modules, indexBuilt, start_mod,
                    visited, edges, stack, entered, resolved, rendered, unused,
                    menuShown, choices, moveTodo, roots, rootsTaken, missing, ans,
                    asked, installLog >>

Next ==
    \/ ReadStart
    \/ BuildIndex
    \/ StartWalk
    \/ DfsImport
    \/ DfsReturn
    \/ Render
    \/ Report
    \/ MoveBegin
    \/ MoveOne
    \/ MoveEnd
    \/ DetectMissing
    \/ Confirm
    \/ InstallOne
    \/ InstallEnd
    \/ Finish

Spec == Init /\ [][Next]_vars

\* ======================================================== properties ===
Keys == DOMAIN modules

\* the part of a dotted string before its first dot
RECURSIVE BeforeDot(_)
BeforeDot(s) ==
    IF s = <<>> \/ Head(s) = "." THEN <<>> ELSE <<Head(s)>> \o BeforeDot(Tail(s))

\* the import strings of an indexed module as its file held them when the
\* index was built; a file that does not parse counts as having none
ImportsOfModule(m) ==
    IF source[modules[m]].parses THEN source[modules[m]].imports ELSE {}

\* the resolved-import relation m -> t
ResolvesTo(m, t) ==
    \E s \in ImportsOfModule(m) :
        t = IF s \in Keys THEN s ELSE BeforeDot(s)

RECURSIVE ReachableFrom(_)
ReachableFrom(S) ==
    LET more == S \cup {t \in Keys : \E m \in S : ResolvesTo(m, t)}
    IN  IF more = S THEN S ELSE ReachableFrom(more)

\* resolve_and_dfs has returned and nothing has happened since
WalkReturned == (pc = "walk" /\ stack = <<>>) \/ pc = "report"

\* C1: the visited set resolve_and_dfs returns is exactly the set of modules
\* reachable from the start module in zero or more steps of the
\* resolved-import relation; the start module is in it, no unreachable
\* module is.
C1_VisitedIsReachableSet ==
    WalkReturned =>
        /\ start_mod \in visited
        /\ visited = ReachableFrom({start_mod})

\* a walk over a chain of two imports that leaves a module unreached
C1_Witness ==
    /\ WalkReturned
    /\ Cardinality(visited) = 3
    /\ Keys \ visited # {}

\* C2: at every moment of the walk, both ends of every recorded edge are keys
\* of the module index, and only keys of the index are visited: an import
\* that resolves to no key adds no edge and is not visited.
C2_NoDanglingEdges ==
    /\ \A i \in 1..Len(edges) : edges[i][1] \in Keys /\ edges[i][2] \in Keys
    /\ visited \subseteq Keys
    /\ Len(resolved) = Len(edges)

\* in the middle of the walk, after an external import was passed over
C2_Witness ==
    /\ pc = "walk"
    /\ edges # <<>>
    /\ \E i \in 1..Len(stack) :
         \E s \in parse_imports(modules[stack[i].mod]) \ stack[i].todo :
            s \notin Keys /\ BeforeDot(s) \notin Keys

\* the import strings the loop of _dfs(m) has gone through
Consumed(m) ==
    IF \E i \in 1..Len(stack) : stack[i].mod = m
    THEN LET i == CHOOSE k \in 1..Len(stack) : stack[k].mod = m
         IN  ImportsOfModule(m) \ stack[i].todo
    ELSE IF m \in Range(entered) THEN ImportsOfModule(m) ELSE {}

\* C3: an import string s of m that is itself a key of the index is recorded
\* as the edge (m, s) and s is the module traversed, never the root of s,
\* also when that root is a key too.
C3_ExactMatchWins ==
    pc = "walk" =>
        /\ \A i \in 1..Len(resolved) :
             /\ edges[i] = <<resolved[i][1], resolved[i][3]>>
             /\ resolved[i][2] \in Keys =>
                   resolved[i][3] = resolved[i][2] /\ resolved[i][2] \in visited
        /\ \A m \in Range(entered) :
             \A s \in Consumed(m) \cap Keys : <<m, s, s>> \in Range(resolved)

\* "b.s" was imported while both "b" and "b.s" are indexed
C3_Witness ==
    /\ pc = "walk"
    /\ ImpB \in Keys
    /\ \E i \in 1..Len(resolved) : resolved[i][2] = ImpBS /\ resolved[i][3] = ImpBS

\* what is left of the walk: the iterations and returns of the active calls
\* and of the calls still possible
WalkMeasure ==
    LET SumOver[S \in SUBSET Keys] ==
            IF S = {} THEN 0
            ELSE LET m == CHOOSE x \in S : TRUE
                 IN  Cardinality(parse_imports(modules[m])) + 1 + SumOver[S \ {m}]
        SumStack[k \in 0..Len(stack)] ==
            IF k = 0 THEN 0 ELSE Cardinality(stack[k].todo) + 1 + SumStack[k - 1]
    IN  SumStack[Len(stack)] + SumOver[Keys \ visited]

C4_EnteredOnce ==
    \A i, j \in 1..Len(entered) : entered[i] = entered[j] => i = j

\* a step of the walk: it uses up part of what is left, and when it records
\* an edge to a module visited before, it enters no call for it
C4_WalkStep ==
    (pc = "walk" /\ stack # <<>>) =>
        /\ WalkMeasure' < WalkMeasure
        /\ (Len(edges') > Len(edges) /\ edges'[Len(edges')][2] \in visited) =>
              /\ entered' = entered
              /\ Len(stack') = Len(stack)
              /\ visited' = visited

\* C4: the walk terminates, cycles and self-imports included: no module has
\* its imports expanded twice, and every step of the walk lowers a measure
\* that is a natural number; an edge to a module already visited is recorded
\* without that module being entered again.
C4_WalkTerminates == [](C4_EnteredOnce) /\ [][C4_WalkStep]_vars

\* a finished walk that met a cycle: more edges than first visits
C4_Witness ==
    /\ pc = "walk"
    /\ stack = <<>>
    /\ Cardinality(visited) >= 2
    /\ Len(edges) >= Cardinality(visited)

UnusedTaken ==
    pc \in {"act1", "move", "act2", "confirm", "install", "finish", "done", "crash"}

\* C5: after the walk, the unused set is the index keys minus the visited
\* set: disjoint from it, covering the keys with it, the start module not in it.
C5_UnusedIsComplement ==
    UnusedTaken =>
        /\ unused \cap visited = {}
        /\ unused \cup visited = Keys
        /\ start_mod \notin unused

C5_Witness ==
    /\ pc = "act1"
    /\ unused # {}
    /\ Cardinality(visited) >= 2

\* the start path as the file system held it when the run began
StartIsFile == full_start \in DOMAIN source
StartInsideRoot == Under(full_start, BaseDir)

\* C6: a start path that does not exist, is no file or lies outside the scan
\* root ends the run at once with a non-zero status: no index is built, no
\* walk is run, nothing is rendered and no action is offered; this covers a
\* path whose string merely begins with the root's path.
C6_InvalidStartExitsBeforeAnalysis ==
    (pc # "start" /\ (~StartIsFile \/ ~StartInsideRoot)) =>
        /\ pc = "exit"
        /\ exitStatus = 1
        /\ ~indexBuilt
        /\ visited = {}
        /\ ~rendered
        /\ ~menuShown

StartMapped == indexBuilt /\ start_mod \in Keys

ProcessOver == pc \in {"exit", "done", "crash"}

\* C7: with a valid start file that maps to an indexed module, the process
\* ends with status zero whatever the actions selected and whatever their
\* outcome, a failed relocation included.
C7_ValidStartExitsZero ==
    (StartMapped /\ ProcessOver) => (pc = "done" /\ exitStatus = 0)

\* C7, amended: with a valid, mapped start file the run never leaves through
\* sys.exit; it ends with "Done." and status zero after the walk, the
\* rendering, the report, the menu and the selected actions, whatever the
\* unused set, the selection, the parse failures and the failed installs; the
\* one other end is the uncaught error of a failed relocation inside the move
\* action, which ends the process with a non-zero status before the install
\* action is reached.
C7_ExitsZeroUnlessMoveFails ==
    StartMapped =>
        /\ pc # "exit"
        /\ pc = "install" => Len(installLog) <= Len(missing)
        /\ pc = "done" =>
              /\ exitStatus = 0
              /\ uncaught = "none"
              /\ rendered /\ menuShown
              /\ (<<"1">> \in choices => moveTodo = {})
              /\ (<<"2">> \in choices => rootsTaken)
              /\ Len(installLog) \in {0, Len(missing)}
        /\ pc = "crash" =>
              /\ exitStatus # 0
              /\ uncaught = "OSError"
              /\ <<"1">> \in choices
              /\ unused # {}
              /\ ~rootsTaken
        /\ pc \notin {"done", "crash"} => (exitStatus = -1 /\ uncaught = "none")

\* a normal end after files were moved and an install failed
C7_Witness ==
    /\ pc = "done"
    /\ exitStatus = 0
    /\ <<"1">> \in choices
    /\ unused # {}
    /\ \E i \in 1..Len(installLog) : ~installLog[i].ok

InstallOver == pc \in {"finish", "done"} /\ <<"2">> \in choices

\* C8: pip is invoked only after the answer "y", and then once for each name
\* of the missing list, in the list's order, a failed install stopping
\* neither the later installs nor the run; without that answer, or with an
\* empty list, it is never invoked.
C8_InstallOncePerMissingAfterYes ==
    /\ installLog # <<>> => (asked /\ ans = <<"y">>)
    /\ Len(installLog) <= Len(missing)
    /\ \A i \in 1..Len(installLog) : installLog[i].pkg = missing[i]
    /\ \A i, j \in 1..Len(missing) : missing[i] = missing[j] => i = j
    /\ uncaught # "CalledProcessError"
    /\ (InstallOver /\ asked /\ ans = <<"y">>) => Len(installLog) = Len(missing)
    /\ (InstallOver /\ ~(asked /\ ans = <<"y">>)) => installLog = <<>>
    /\ missing = <<>> => ~asked

\* two packages were missing, the first install failed, the second was run
C8_Witness ==
    /\ pc = "done"
    /\ Len(missing) = 2
    /\ Len(installLog) = 2
    /\ ~installLog[1].ok

\* C9: the import roots the install action collects are those of every
\* indexed file, whether or not the move action ran before it.
C9_RootsIndependentOfMove ==
    rootsTaken =>
        roots = {BeforeDot(s) : s \in UNION {ImportsOfModule(m) : m \in Keys}}

\* <root>/unused/<the dotted name, its dots as directory separators>.py
QuarantinePath(m) ==
    BaseDir \o <<"/">> \o OutDir \o <<"/">> \o Replace(m, ".", "/") \o PyExt

\* the file indexed for module m sits at path p
HoldsFileOf(p, m) == p \in DOMAIN fs /\ fs[p] = modules[m]

MoveReturned ==
    /\ <<"1">> \in choices
    /\ pc \in {"act2", "confirm", "install", "finish", "done"}

\* C10: when the move action has returned, the file of every unused module is
\* at its quarantine path and no longer at its indexed path, the file of
\* every visited module is still at its indexed path, and with no unused
\* module the file system is as it was.
C10_MoveRelocatesExactlyUnused ==
    MoveReturned =>
        /\ \A m \in unused :
              HoldsFileOf(QuarantinePath(m), m) /\ ~HoldsFileOf(modules[m], m)
        /\ \A m \in visited : HoldsFileOf(modules[m], m)
        /\ unused = {} =>
              /\ fs = [f \in DOMAIN source |-> f]
              /\ dirs = UNION {Ancestors(DirName(f)) : f \in DOMAIN source}

=============================================================================
